---- MODULE Spec2Model ----
(***************************************************************************)
(* CampusQuery front end (class CampusQueryApp): the query submitter, the  *)
(* status poller and the PDF viewer, as a state machine.                   *)
(*                                                                         *)
(* The browser runs one handler at a time to its next await, so every      *)
(* action below is one such run: a user event, a timer, or the arrival of  *)
(* a response.  A handler is an operator from a state record               *)
(*   [app, dom, net, shown]                                                *)
(* to the state record it leaves, so that a handler calling another        *)
(* handler is a composition.  app holds the fields of the CampusQueryApp   *)
(* object, dom the parts of the page the handlers read and write, net the  *)
(* requests in flight and the timers armed, shown the notifications the    *)
(* last handler run has shown.  ev names the last handler run.             *)
(***************************************************************************)
EXTENDS Integers, Sequences, FiniteSets, Bags, TLC

VARIABLES app, dom, net, shown, ev

vars == <<app, dom, net, shown, ev>>

(***************************************************************************)
(* Bounds of the model.                                                    *)
(***************************************************************************)
\* /api/query requests in flight at once.
MaxInFlight == 2
\* Entries in the sources array of a /api/query response.
MaxSources == 2
\* Pages of the longer document.
MaxPages == 2
\* Viewer openings whose 100 ms timer or document load is outstanding.
MaxLoads == 1
\* Selection timers armed at once.
MaxSelectionTimers == 1
\* /api/followup requests in flight at once.
MaxFollowUps == 1
\* /api/export requests in flight at once.
MaxExports == 1
\* /api/rebuild requests in flight at once.
MaxRebuilds == 1
\* Status polls outstanding at once: requests in flight and timers armed.
MaxPolls == 2

(***************************************************************************)
(* Values.                                                                 *)
(***************************************************************************)
\* this.pageNumPending = null; page numbers start at 1.
NoPage == 0
\* this.pdfDoc = null.
NoDoc == "null"
\* this.currentResult = null.
NoResult == [null |-> TRUE]

\* A string the user can type is a sequence of characters; " " is whitespace.
InputValues == { <<>>, <<" ">>, <<"a">>, <<" ", "b", " ">> }

RECURSIVE TrimStart(_)
TrimStart(str) ==
    IF str # <<>> /\ Head(str) = " " THEN TrimStart(Tail(str)) ELSE str

RECURSIVE TrimEnd(_)
TrimEnd(str) ==
    IF str # <<>> /\ str[Len(str)] = " "
    THEN TrimEnd(SubSeq(str, 1, Len(str) - 1))
    ELSE str

\* String.prototype.trim
Trim(str) == TrimEnd(TrimStart(str))

\* The entries a sources array is made of.  relevance is in thousandths
\* (5 is 0.005, 994 is 0.994), so that relevance * 100 is relevance / 10.
SourceEntries ==
    { [filename |-> "a.pdf", relevance |-> 5,   is_web_result |-> FALSE],
      [filename |-> "site",  relevance |-> 994, is_web_result |-> TRUE] }

\* The sequences of at most n entries of S, none of them twice.
SeqsUpTo(S, n) ==
    { srcs \in UNION { [1..k -> S] : k \in 0..n } :
        \A i, j \in DOMAIN srcs : srcs[i] = srcs[j] => i = j }

\* data.answer either holds the web-search marker or does not.
Answers == { "plain", "web" }

\* The bodies of a successful /api/query response.
Responses ==
    { [answer |-> a, sources |-> srcs] :
        a \in Answers, srcs \in SeqsUpTo(SourceEntries, MaxSources) }

\* How a /api/query request fails: fetch rejects, or the status is not OK and
\* the body has or has not an error field.
QueryFailures == { "network", "http_error_field", "http_no_error_field" }

\* The bodies of a successful /api/status response.
StatusBodies ==
    { [ready |-> TRUE,  has_documents |-> TRUE],
      [ready |-> TRUE,  has_documents |-> FALSE],
      [ready |-> FALSE, has_documents |-> FALSE] }

(***************************************************************************)
(* Helpers of every handler.                                               *)
(***************************************************************************)
Toast(type, text, arg) == [type |-> type, text |-> text, arg |-> arg]

\* toast(message, type)
toast(s, type, text, arg) ==
    [s EXCEPT !.shown = Append(@, Toast(type, text, arg))]

\* showAlert(message, type) { this.toast(message, type); }
showAlert(s, text, arg, type) == toast(s, type, text, arg)

\* confirm(text), answered by the user: among what the handler run showed.
ConfirmAnswer(confirmed) == IF confirmed THEN "ok" ELSE "cancel"
confirm(s, text, confirmed) ==
    [s EXCEPT !.shown = Append(@, Toast("confirm", text, ConfirmAnswer(confirmed)))]

showLoading(s, msg) ==
    [s EXCEPT !.dom.loadingText = msg, !.dom.loadingHidden = FALSE]

hideLoading(s) == [s EXCEPT !.dom.loadingHidden = TRUE]

\* The state the handlers start from, with nothing shown yet by this run.
Cur == [app |-> app, dom |-> dom, net |-> net, shown |-> <<>>]

\* The state a handler run leaves.
Commit(s, e) ==
    /\ app' = s.app
    /\ dom' = s.dom
    /\ net' = s.net
    /\ shown' = s.shown
    /\ ev' = e

RemoveAt(seq, i) == SubSeq(seq, 1, i - 1) \o SubSeq(seq, i + 1, Len(seq))

(***************************************************************************)
(* Query submitter.                                                        *)
(***************************************************************************)
\* Math.round(s.relevance * 100), relevance in thousandths: floor(x + 0.5).
RelevancePercent(relevance) == (relevance + 5) \div 10

\* The card displayResults builds for one entry of data.sources.
DocCard(src) ==
    [filename |-> src.filename,
     percent  |-> RelevancePercent(src.relevance),
     web      |-> src.is_web_result]

\* The answer-source indicator displayResults puts before the answer.
SourceIndicator(data) ==
    IF data.answer = "web" THEN "web"
    ELSE IF Len(data.sources) > 0 THEN "document" ELSE "none"

\* displayResults without `container.innerHTML = ''`: the cards pile up.
displayResultsKeepsCards(s, data) ==
    [s EXCEPT !.dom.resultsHidden = FALSE,
              !.dom.answerContent = [indicator |-> SourceIndicator(data), text |-> data.answer],
              !.dom.docsCardHidden = (Len(data.sources) = 0 /\ @),
              !.dom.docCards = @ \o [i \in 1..Len(data.sources) |-> DocCard(data.sources[i])]]

displayResults(s, data) ==
    LET shownAnswer == [indicator |-> SourceIndicator(data), text |-> data.answer]
        cleared == [s EXCEPT !.dom.resultsHidden = FALSE,
                             !.dom.answerContent = shownAnswer,
                             !.dom.docCards = <<>>]
    IN  IF Len(data.sources) > 0
        THEN [cleared EXCEPT
                !.dom.docsCardHidden = FALSE,
                !.dom.docCards = [i \in 1..Len(data.sources) |-> DocCard(data.sources[i])]]
        ELSE cleared

\* processQuery without the check of the question.
processQueryUnchecked(s) ==
    LET q == Trim(s.dom.queryInput)
        loading == showLoading([s EXCEPT !.app.currentQuery = q], "Processing your query")
    IN  [loading EXCEPT
            !.dom.askDisabled = TRUE,
            !.dom.askLabel = "Processing",
            !.net.queries = @ (+) SetToBag({[q |-> q, originalText |-> s.dom.askLabel]})]

\* processQuery up to its await of fetch('/api/query').
processQuery(s) ==
    LET q == Trim(s.dom.queryInput) IN
    IF q = <<>>
    THEN showAlert(s, "Please enter a question.", "", "warn")
    ELSE LET loading == showLoading([s EXCEPT !.app.currentQuery = q], "Processing your query")
         IN  [loading EXCEPT
                !.dom.askDisabled = TRUE,
                !.dom.askLabel = "Processing",
                !.net.queries = @ (+) SetToBag({[q |-> q, originalText |-> s.dom.askLabel]})]

\* The finally block of processQuery, for the request req in flight.
processQueryFinally(s, req) ==
    [hideLoading(s) EXCEPT !.dom.askDisabled = FALSE,
                           !.dom.askLabel = req.originalText,
                           !.net.queries = @ (-) SetToBag({req})]

\* processQuery from the response to its end, the response being OK.
processQueryOk(s, req, data) ==
    LET stored == [s EXCEPT !.app.currentResult = data]
        displayed == displayResults(stored, data)
        told == IF data.answer = "web"
                THEN toast(displayed, "info", "Web search completed", "")
                ELSE toast(displayed, "success", "Document search completed", "")
    IN  processQueryFinally(told, req)

\* err.message of a failed /api/query request.
QueryErrorMessage(failure) ==
    CASE failure = "network" -> "Failed to fetch"
      [] failure = "http_error_field" -> "data.error"
      [] failure = "http_no_error_field" -> "Query failed"

\* processQuery with the clean-up after the try block instead of in a finally.
processQueryFailedNoFinally(s, req, failure) ==
    [showAlert(s, "Error: ", QueryErrorMessage(failure), "error")
        EXCEPT !.net.queries = @ (-) SetToBag({req})]

\* processQuery from the response to its end, the request having failed.
processQueryFailed(s, req, failure) ==
    processQueryFinally(
        showAlert(s, "Error: ", QueryErrorMessage(failure), "error"), req)

\* Whether one more call of processQuery keeps the requests within the bound.
RoomForQueries(n) ==
    Trim(dom.queryInput) = <<>> \/ BagCardinality(net.queries) + n <= MaxInFlight

\* The user edits the question field (or clicks a sample chip).
TypeQuestion ==
    \E v \in InputValues :
        /\ v # dom.queryInput
        /\ Commit([Cur EXCEPT !.dom.queryInput = v], "TypeQuestion")

\* A click on the Ask button, which a disabled button does not deliver.
ClickAsk ==
    /\ ~dom.askDisabled
    /\ RoomForQueries(1)
    /\ Commit(processQuery(Cur), "ClickAsk")

\* Ctrl+Enter in the question field: the field's keydown listener calls
\* processQuery, and the event then reaches the document's keydown listener,
\* which calls it again since the field has the focus.
CtrlEnter ==
    /\ RoomForQueries(2)
    /\ Commit(processQuery(processQuery(Cur)), "CtrlEnter")

\* Meta+Enter in the question field: only the document's listener matches.
MetaEnter ==
    /\ RoomForQueries(1)
    /\ Commit(processQuery(Cur), "MetaEnter")

QuerySucceeds ==
    \E req \in BagToSet(net.queries) : \E data \in Responses :
        Commit(processQueryOk(Cur, req, data), "QuerySucceeds")

QueryFails ==
    \E req \in BagToSet(net.queries) : \E failure \in QueryFailures :
        Commit(processQueryFailed(Cur, req, failure), "QueryFails")

hideResults(s) ==
    [s EXCEPT !.dom.resultsHidden = TRUE,
              !.dom.detailCardHidden = TRUE,
              !.dom.docsCardHidden = TRUE,
              !.app.detailVisible = FALSE,
              !.dom.detailLabel = "Details"]

clearQuery(s) ==
    toast(hideResults([s EXCEPT !.dom.queryInput = <<>>]), "success", "Query cleared", "")

ClickClear ==
    Commit(clearQuery(Cur), "ClickClear")

\* The bodies of a successful /api/query response that carry a detailed
\* answer.
DetailedResponses ==
    { [answer |-> "plain", detailed_answer |-> d, sources |-> srcs] :
        d \in { "long", "longer" },
        srcs \in SeqsUpTo({ [filename |-> "a.pdf", relevance |-> 5,
                             is_web_result |-> FALSE] }, 1) }

\* this.currentResult.detailed_answer as formatText takes it: a body without
\* the field gives undefined, for which formatText formats ''.
DetailedAnswer(data) ==
    IF "detailed_answer" \in DOMAIN data THEN data.detailed_answer ELSE ""

\* toggleDetailedExplanation whose hiding branch leaves the button label.
toggleDetailedExplanationKeepsLabel(s) ==
    IF s.app.currentResult = NoResult THEN s
    ELSE IF s.app.detailVisible
    THEN [s EXCEPT !.dom.detailCardHidden = TRUE,
                   !.app.detailVisible = FALSE]
    ELSE [s EXCEPT !.dom.detailCardHidden = FALSE,
                   !.dom.detailContent = DetailedAnswer(s.app.currentResult),
                   !.dom.detailLabel = "Hide Details",
                   !.app.detailVisible = TRUE]

toggleDetailedExplanation(s) ==
    IF s.app.currentResult = NoResult THEN s
    ELSE IF s.app.detailVisible
    THEN [s EXCEPT !.dom.detailCardHidden = TRUE,
                   !.dom.detailLabel = "Details",
                   !.app.detailVisible = FALSE]
    ELSE [s EXCEPT !.dom.detailCardHidden = FALSE,
                   !.dom.detailContent = DetailedAnswer(s.app.currentResult),
                   !.dom.detailLabel = "Hide Details",
                   !.app.detailVisible = TRUE]

\* The body the backend answers the question q with: its justification is
\* the account of how q was answered, which is q's own.
AnswerTo(q) == [answer |-> "plain", justification |-> q, sources |-> <<>>]

\* The response to a request in flight arrives: the answer to its question.
QueryAnswered ==
    \E req \in BagToSet(net.queries) :
        Commit(processQueryOk(Cur, req, AnswerTo(req.q)), "QuerySucceeds")

\* A response with a detailed answer arrives.
QuerySucceedsDetailed ==
    \E req \in BagToSet(net.queries) : \E data \in DetailedResponses :
        Commit(processQueryOk(Cur, req, data), "QuerySucceeds")

\* A click on the Details button.
ClickDetails ==
    Commit(toggleDetailedExplanation(Cur), "ClickDetails")

(***************************************************************************)
(* Status poller.                                                          *)
(***************************************************************************)
\* checkStatus up to its await of fetch('/api/status').
checkStatus(s) == [s EXCEPT !.net.statusRequests = @ + 1]

\* setTimeout(() => this.checkStatus(), delay)
armStatusTimer(s, delay) == [s EXCEPT !.net.statusTimers = Append(@, delay)]

\* checkStatus that arms its 1500 ms timer on a ready response as well.
checkStatusOkAlwaysRepolls(s, data) ==
    LET stored == [s EXCEPT !.net.statusRequests = @ - 1,
                            !.app.systemStatus = data]
    IN  IF data.ready
        THEN armStatusTimer(
                [stored EXCEPT !.dom.statusText = "Ready",
                               !.dom.statusSubtext =
                                   IF data.has_documents THEN "documents loaded"
                                                         ELSE "Web search enabled",
                               !.dom.askDisabled = FALSE],
                1500)
        ELSE armStatusTimer(
                [stored EXCEPT !.dom.statusText = "Loading",
                               !.dom.statusSubtext = "Initializing",
                               !.dom.askDisabled = TRUE],
                1500)

\* checkStatus from an OK response to its end.
checkStatusOk(s, data) ==
    LET stored == [s EXCEPT !.net.statusRequests = @ - 1,
                            !.app.systemStatus = data]
    IN  IF data.ready
        THEN [stored EXCEPT !.dom.statusText = "Ready",
                            !.dom.statusSubtext =
                                IF data.has_documents THEN "documents loaded"
                                                      ELSE "Web search enabled",
                            !.dom.askDisabled = FALSE]
        ELSE armStatusTimer(
                [stored EXCEPT !.dom.statusText = "Loading",
                               !.dom.statusSubtext = "Initializing",
                               !.dom.askDisabled = TRUE],
                1500)

\* The catch block of checkStatus without its setTimeout.
checkStatusFailedGivesUp(s) ==
    [s EXCEPT !.net.statusRequests = @ - 1,
              !.dom.statusText = "Error",
              !.dom.statusSubtext = "Connection failed - retrying..."]

\* checkStatus from a failed request (fetch rejects, or HTTP not OK) to its end.
checkStatusFailed(s) ==
    armStatusTimer(
        [s EXCEPT !.net.statusRequests = @ - 1,
                  !.dom.statusText = "Error",
                  !.dom.statusSubtext = "Connection failed - retrying..."],
        2500)

StatusSucceeds ==
    /\ net.statusRequests > 0
    /\ \E data \in StatusBodies :
        Commit(checkStatusOk(Cur, data), "StatusSucceeds")

StatusFails ==
    /\ net.statusRequests > 0
    /\ Commit(checkStatusFailed(Cur), "StatusFails")

StatusTimerFires ==
    \E i \in 1..Len(net.statusTimers) :
        Commit(checkStatus([Cur EXCEPT !.net.statusTimers = RemoveAt(@, i)]),
               "StatusTimerFires")

(***************************************************************************)
(* Export and index rebuild.                                               *)
(***************************************************************************)
\* exportAnswer up to its await of fetch('/api/export').
exportAnswer(s) ==
    IF s.app.currentResult = NoResult
    THEN showAlert(s, "No answer to export", "", "warn")
    ELSE [s EXCEPT !.net.exports = @ + 1]

\* exportAnswer from an OK response to its end: the file it has the browser
\* download holds this.currentQuery as the question and the fields of
\* this.currentResult as the answer; then the notification.
exportOk(s) ==
    LET content == [question |-> s.app.currentQuery, result |-> s.app.currentResult]
        saved == toast([s EXCEPT !.net.exports = @ - 1], "download", "QUESTION:", content)
    IN  toast(saved, "success", "Answer exported successfully!", "")

\* The catch block of exportAnswer.
exportFailed(s) ==
    showAlert([s EXCEPT !.net.exports = @ - 1], "Export failed: ", "err.message", "error")

\* rebuildIndex up to its await of fetch('/api/rebuild'); confirmed is the
\* user's answer to confirm().
rebuildIndex(s, confirmed) ==
    LET asked == confirm(s, "Are you sure you want to rebuild the document index?",
                         confirmed)
    IN  IF ~confirmed THEN asked
        ELSE [showLoading(asked, "Rebuilding document index")
                EXCEPT !.net.rebuilds = @ + 1]

\* rebuildIndex that puts the constructor's snapshot back instead of writing
\* the ready field.
rebuildOkResetsStatus(s) ==
    LET told == toast([s EXCEPT !.net.rebuilds = @ - 1],
                      "info", "Index rebuild started", "")
    IN  hideLoading(armStatusTimer(
            [told EXCEPT !.app.systemStatus = [ready |-> FALSE, has_documents |-> FALSE]],
            3000))

\* rebuildIndex from an OK response to its end: the notice, ready = false,
\* setTimeout(() => this.checkStatus(), 3000), and the finally block.
rebuildOk(s) ==
    LET told == toast([s EXCEPT !.net.rebuilds = @ - 1],
                      "info", "Index rebuild started", "")
    IN  hideLoading(armStatusTimer([told EXCEPT !.app.systemStatus.ready = FALSE], 3000))

\* The catch block of rebuildIndex and its finally block.
rebuildFailed(s) ==
    hideLoading(showAlert([s EXCEPT !.net.rebuilds = @ - 1],
                          "Rebuild failed: ", "err.message", "error"))

\* The status polls outstanding: requests in flight and timers armed.
Polls == net.statusRequests + Len(net.statusTimers)

ClickExport ==
    /\ app.currentResult = NoResult \/ net.exports < MaxExports
    /\ Commit(exportAnswer(Cur), "ClickExport")

ExportSucceeds ==
    /\ net.exports > 0
    /\ Commit(exportOk(Cur), "ExportSucceeds")

ExportFails ==
    /\ net.exports > 0
    /\ Commit(exportFailed(Cur), "ExportFails")

\* A click on the rebuild button and the answer to its confirm().
ClickRebuild ==
    \E confirmed \in BOOLEAN :
        /\ confirmed => /\ net.rebuilds < MaxRebuilds
                        /\ Polls + net.rebuilds < MaxPolls
        /\ Commit(rebuildIndex(Cur, confirmed), "ClickRebuild")

RebuildSucceeds ==
    /\ net.rebuilds > 0
    /\ Commit(rebuildOk(Cur), "RebuildSucceeds")

RebuildFails ==
    /\ net.rebuilds > 0
    /\ Commit(rebuildFailed(Cur), "RebuildFails")

(***************************************************************************)
(* Document viewer.                                                        *)
(***************************************************************************)
\* The documents behind the source cards: a.pdf has one page, b.pdf MaxPages.
NumPages(doc) == IF doc = "a.pdf" THEN 1 ELSE MaxPages

\* this.currentPdfUrl = `/docs/${source.filename}`; '' is the empty sequence.
NoUrl == <<>>
DocUrl(filename) == << "/docs/", filename >>

\* The text the browser's selection holds when a selection timer fires.
Selections ==
    { <<>>,
      << "a", "b", "c", "d", "e" >>,
      << " ", "a", "b", "c", "d", " " >>,
      << " ", "a", "b", "c", "d", "e", "f", " " >> }

\* data.question of a successful /api/followup response.
FollowUpQuestions == { << "c" >> }

\* The part of the modal that openAccuratePDFViewer writes: the elements the
\* viewer's handlers look up by id.  present is whether they exist (the modal's
\* content is the viewer's and not a web result's).
\*   navBound        prev/next/zoom buttons have their onclick
\*   handlersBound   the other buttons have theirs (setupPDFEventHandlers)
\*   loadingMessage  "loading", "hidden" (display: none), "error",
\*                   "hiddenError" (the error written while hidden), or "gone"
\*                   once a page replaced the content of pdfDisplayContainer
\*   pageShown       the page the container holds a canvas of, and the scale
\*                   of its viewport
\*   textLayer       "none", or the text layer of the canvas: "unbound" until
\*                   addAccurateSelectionHandler ran on it, then "bound"
\*   timerArmed      the selection timer of this text layer is armed
\*   selectionShown  textSelectionDisplay is displayed
\*   pageInfo        the text of pageInfoDisplay: page, of
FreshViewer ==
    [present        |-> TRUE,
     navBound       |-> FALSE,
     handlersBound  |-> FALSE,
     loadingMessage |-> "loading",
     pageShown      |-> [num |-> NoPage, scale |-> 0],
     textLayer      |-> "none",
     timerArmed     |-> FALSE,
     selectionShown |-> FALSE,
     pageInfo       |-> << 1, 1 >>]

GoneViewer ==
    [present        |-> FALSE,
     navBound       |-> FALSE,
     handlersBound  |-> FALSE,
     loadingMessage |-> "gone",
     pageShown      |-> [num |-> NoPage, scale |-> 0],
     textLayer      |-> "none",
     timerArmed     |-> FALSE,
     selectionShown |-> FALSE,
     pageInfo       |-> << 1, 1 >>]

\* The canvases of the renders in flight leave the page with the content of
\* the modal.
Detached(renders) == [i \in DOMAIN renders |-> [renders[i] EXCEPT !.attached = FALSE]]

\* cleanupModal without `this.selectedText = ''`.
cleanupModalKeepsSelection(s) ==
    [s EXCEPT !.app.pdfDoc = NoDoc,
              !.app.currentPdfUrl = NoUrl,
              !.app.currentDocumentName = ""]

\* cleanupModal without `this.pdfDoc = null`.
cleanupModalKeepsDoc(s) ==
    [s EXCEPT !.app.selectedText = <<>>,
              !.app.currentPdfUrl = NoUrl,
              !.app.currentDocumentName = ""]

cleanupModal(s) ==
    [s EXCEPT !.app.selectedText = <<>>,
              !.app.pdfDoc = NoDoc,
              !.app.currentPdfUrl = NoUrl,
              !.app.currentDocumentName = ""]

\* The three listeners of bindModal: modal.classList.add('hidden'); cleanupModal().
closeModal(s) == cleanupModal([s EXCEPT !.dom.modalHidden = TRUE])

clearPDFSelection(s) ==
    toast([s EXCEPT !.app.selectedText = <<>>,
                    !.dom.viewer.selectionShown = FALSE],
          "info", "Selection cleared", "")

openAccuratePDFViewer(s, filename) ==
    [s EXCEPT !.app.currentDocumentName = filename,
              !.app.currentPdfUrl = DocUrl(filename),
              !.dom.viewer = FreshViewer,
              !.dom.modalHidden = FALSE,
              !.net.renders = Detached(@),
              !.net.openTimers = @ + 1]

showWebResult(s) ==
    [s EXCEPT !.dom.viewer = GoneViewer,
              !.dom.modalHidden = FALSE,
              !.net.renders = Detached(@)]

setupPDFEventHandlers(s) ==
    [s EXCEPT !.dom.viewer.handlersBound = s.dom.viewer.present]

bindPDFNavigationControls(s) ==
    [s EXCEPT !.dom.viewer.navBound = s.dom.viewer.present]

\* initializeAccuratePDFViewer after `await this.renderPageAccurately(...)`.
initializeAfterRender(s) ==
    toast(bindPDFNavigationControls(s), "success", "PDF loaded successfully", "")

\* What runs when a call of renderPageAccurately returns: the rest of
\* initializeAccuratePDFViewer when that is the caller and awaits it.
afterRender(s, awaited) == IF awaited THEN initializeAfterRender(s) ELSE s

\* The catch block of renderPageAccurately.
renderCatch(s) ==
    showAlert([s EXCEPT !.app.pageRendering = FALSE],
              "Error rendering PDF page: ", "error.message", "error")

\* renderPageAccurately without the test of this.pageRendering at its start.
renderPageAccuratelyUnguarded(s, num, awaited) ==
    IF s.app.pdfDoc = NoDoc
    THEN afterRender(renderCatch([s EXCEPT !.app.pageRendering = TRUE]), awaited)
    ELSE [s EXCEPT !.app.pageRendering = TRUE,
                   !.net.renders = Append(@, [num      |-> num,
                                              pc       |-> "getPage",
                                              doc      |-> s.app.pdfDoc,
                                              awaited  |-> awaited,
                                              attached |-> FALSE])]

\* renderPageAccurately(num) up to its await of this.pdfDoc.getPage(num);
\* awaited is whether initializeAccuratePDFViewer is the caller.
renderPageAccurately(s, num, awaited) ==
    IF s.app.pageRendering
    THEN afterRender([s EXCEPT !.app.pageNumPending = num], awaited)
    ELSE IF s.app.pdfDoc = NoDoc
    THEN afterRender(renderCatch([s EXCEPT !.app.pageRendering = TRUE]), awaited)
    ELSE [s EXCEPT !.app.pageRendering = TRUE,
                   !.net.renders = Append(@, [num      |-> num,
                                              pc       |-> "getPage",
                                              doc      |-> s.app.pdfDoc,
                                              awaited  |-> awaited,
                                              attached |-> FALSE])]

\* renderPageAccurately from the page to its await of page.render: render i
\* has its page; the container is missing when the modal shows a web result.
renderGotPage(s, i) ==
    LET r == s.net.renders[i] IN
    IF ~s.dom.viewer.present
    THEN afterRender([s EXCEPT !.app.pageRendering = FALSE,
                               !.net.renders = RemoveAt(@, i)], r.awaited)
    ELSE [s EXCEPT !.dom.viewer.pageShown = [num |-> r.num, scale |-> s.app.scale],
                   !.dom.viewer.loadingMessage = "gone",
                   !.dom.viewer.textLayer = "unbound",
                   !.dom.viewer.timerArmed = FALSE,
                   !.net.renders[i].pc = "paint",
                   !.net.renders[i].attached = TRUE]

\* The update of pageInfoDisplay at the end of renderPageAccurately, which
\* reads this.pdfDoc.numPages inside the try block.
updatePageInfo(s, num) ==
    IF ~s.dom.viewer.present THEN s
    ELSE IF s.app.pdfDoc = NoDoc THEN renderCatch(s)
    ELSE [s EXCEPT !.dom.viewer.pageInfo = << num, NumPages(s.app.pdfDoc) >>]

\* renderPageAccurately whose end forgets the page put aside instead of
\* rendering it.
renderPaintedDropsPending(s, i) ==
    LET r == s.net.renders[i]
        layered == IF r.attached THEN [s EXCEPT !.dom.viewer.textLayer = "bound"] ELSE s
        ended == [layered EXCEPT !.app.pageRendering = FALSE,
                                 !.app.pageNumPending = NoPage,
                                 !.net.renders = RemoveAt(@, i)]
    IN  afterRender(updatePageInfo(ended, r.num), r.awaited)

\* renderPageAccurately from the painted page and its text content to the end.
renderPainted(s, i) ==
    LET r == s.net.renders[i]
        layered == IF r.attached THEN [s EXCEPT !.dom.viewer.textLayer = "bound"] ELSE s
        ended == [layered EXCEPT !.app.pageRendering = FALSE,
                                 !.net.renders = RemoveAt(@, i)]
        next == IF ended.app.pageNumPending # NoPage
                THEN [renderPageAccurately(ended, ended.app.pageNumPending, FALSE)
                        EXCEPT !.app.pageNumPending = NoPage]
                ELSE ended
    IN  afterRender(updatePageInfo(next, r.num), r.awaited)

\* renderPageAccurately when getPage, page.render or getTextContent rejects.
renderFailed(s, i) ==
    afterRender(renderCatch([s EXCEPT !.net.renders = RemoveAt(@, i)]),
                s.net.renders[i].awaited)

\* initializeAccuratePDFViewer up to its await of the loading task.
initializeAccuratePDFViewer(s) ==
    [s EXCEPT !.net.loads = @ (+) SetToBag({s.app.currentPdfUrl})]

\* initializeAccuratePDFViewer that drops a document whose URL is no longer
\* currentPdfUrl.
initializeLoadedDropsLate(s, url) ==
    LET doc == url[2]
        arrived == [s EXCEPT !.net.loads = @ (-) SetToBag({url})]
        installed == [arrived EXCEPT !.app.pdfDoc = doc,
                                     !.dom.viewer.loadingMessage =
                                          IF @ = "loading" THEN "hidden" ELSE @,
                                     !.app.pageNum = 1,
                                     !.app.scale = 100]
    IN  IF url # s.app.currentPdfUrl THEN arrived
        ELSE renderPageAccurately(installed, 1, TRUE)

\* initializeAccuratePDFViewer without `this.pageNum = 1`.
initializeLoadedKeepsPage(s, url) ==
    LET doc == url[2]
        installed == [s EXCEPT !.net.loads = @ (-) SetToBag({url}),
                               !.app.pdfDoc = doc,
                               !.dom.viewer.loadingMessage =
                                    IF @ = "loading" THEN "hidden" ELSE @,
                               !.app.scale = 100]
    IN  renderPageAccurately(installed, 1, TRUE)

\* initializeAccuratePDFViewer from the loaded document to its await of the
\* first render.
initializeLoaded(s, url) ==
    LET doc == url[2]
        installed == [s EXCEPT !.net.loads = @ (-) SetToBag({url}),
                               !.app.pdfDoc = doc,
                               !.dom.viewer.loadingMessage =
                                    IF @ = "loading" THEN "hidden" ELSE @,
                               !.app.pageNum = 1,
                               !.app.scale = 100]
    IN  renderPageAccurately(installed, 1, TRUE)

\* The catch block of initializeAccuratePDFViewer without the inline error.
initializeFailedNoInlineError(s, url) ==
    showAlert([s EXCEPT !.net.loads = @ (-) SetToBag({url})],
              "Failed to load PDF: ", "error.message", "error")

\* The catch block of initializeAccuratePDFViewer.
initializeFailed(s, url) ==
    LET told == showAlert([s EXCEPT !.net.loads = @ (-) SetToBag({url})],
                          "Failed to load PDF: ", "error.message", "error")
    IN  [told EXCEPT !.dom.viewer.loadingMessage =
                        CASE @ = "loading" -> "error"
                          [] @ \in { "hidden", "hiddenError" } -> "hiddenError"
                          [] OTHER -> @]

prevPage(s) ==
    IF s.app.pageNum <= 1
    THEN toast(s, "info", "Already on first page", "")
    ELSE LET num == s.app.pageNum - 1 IN
         clearPDFSelection(
            renderPageAccurately([s EXCEPT !.app.pageNum = num], num, FALSE))

\* nextPage with > for >= in its test for the last page.
nextPageOffByOne(s) ==
    IF s.app.pdfDoc = NoDoc
    THEN showAlert(s, "An unexpected error occurred", "", "error")
    ELSE IF s.app.pageNum > NumPages(s.app.pdfDoc)
    THEN toast(s, "info", "Already on last page", "")
    ELSE LET num == s.app.pageNum + 1 IN
         clearPDFSelection(
            renderPageAccurately([s EXCEPT !.app.pageNum = num], num, FALSE))

\* With pdfDoc null the listener throws reading numPages and the window's
\* error listener shows the notification.
nextPage(s) ==
    IF s.app.pdfDoc = NoDoc
    THEN showAlert(s, "An unexpected error occurred", "", "error")
    ELSE IF s.app.pageNum >= NumPages(s.app.pdfDoc)
    THEN toast(s, "info", "Already on last page", "")
    ELSE LET num == s.app.pageNum + 1 IN
         clearPDFSelection(
            renderPageAccurately([s EXCEPT !.app.pageNum = num], num, FALSE))

Min(a, b) == IF a <= b THEN a ELSE b
Max(a, b) == IF a >= b THEN a ELSE b

\* zoomIn without Math.min.
zoomInUnclamped(s) ==
    LET zoomed == [s EXCEPT !.app.scale = @ + 25] IN
    toast(clearPDFSelection(renderPageAccurately(zoomed, zoomed.app.pageNum, FALSE)),
          "info", "Zoomed to", zoomed.app.scale)

\* this.scale in hundredths: 0.25 is 25, 3.0 is 300, 0.5 is 50.
zoomIn(s) ==
    LET zoomed == [s EXCEPT !.app.scale = Min(@ + 25, 300)] IN
    toast(clearPDFSelection(renderPageAccurately(zoomed, zoomed.app.pageNum, FALSE)),
          "info", "Zoomed to", zoomed.app.scale)

zoomOut(s) ==
    LET zoomed == [s EXCEPT !.app.scale = Max(@ - 25, 50)] IN
    toast(clearPDFSelection(renderPageAccurately(zoomed, zoomed.app.pageNum, FALSE)),
          "info", "Zoomed to", zoomed.app.scale)

\* The timer callback with the length test on the untrimmed selection.
selectionTimeoutUntrimmed(s, text) ==
    LET selectedText == Trim(text) IN
    IF Len(text) > 5
    THEN toast([s EXCEPT !.app.selectedText = selectedText,
                         !.dom.viewer.selectionShown = s.dom.viewer.present],
               "success", "Selected characters", Len(selectedText))
    ELSE clearPDFSelection(s)

\* The timer callback of addAccurateSelectionHandler, the selection being text.
selectionTimeout(s, text) ==
    LET selectedText == Trim(text) IN
    IF Len(selectedText) > 5
    THEN toast([s EXCEPT !.app.selectedText = selectedText,
                         !.dom.viewer.selectionShown = s.dom.viewer.present],
               "success", "Selected characters", Len(selectedText))
    ELSE clearPDFSelection(s)

\* handleSelection without its clearTimeout: every event arms one more timer.
handleSelectionKeepsTimer(s) ==
    [s EXCEPT !.dom.viewer.timerArmed = TRUE,
              !.net.selectionTimers = @ + 1]

\* handleSelection of addAccurateSelectionHandler: clearTimeout takes the
\* timer of this text layer away if it is armed, setTimeout arms it.
handleSelection(s) ==
    [s EXCEPT !.dom.viewer.timerArmed = TRUE,
              !.net.selectionTimers =
                    IF s.dom.viewer.timerArmed THEN @ ELSE @ + 1]

\* generateFollowUpFromPDF up to its await of fetch('/api/followup').
generateFollowUpFromPDF(s) ==
    IF s.app.selectedText = <<>>
    THEN showAlert(s, "Please select some text first", "", "warn")
    ELSE [showLoading(s, "Generating follow-up question")
            EXCEPT !.net.followups = @ + 1]

\* generateFollowUpFromPDF that submits the question whatever confirm() returns.
followUpOkSubmitsAlways(s, question, confirmed) ==
    LET filled == [hideLoading(s) EXCEPT !.net.followups = @ - 1,
                                         !.dom.queryInput = question]
        told == toast(closeModal(filled), "success", "Follow-up question generated", "")
        asked == confirm(told, "Would you like to automatically search?", confirmed)
    IN  processQuery(asked)

\* generateFollowUpFromPDF from an OK response to its end; confirmed is the
\* user's answer to confirm().
followUpOk(s, question, confirmed) ==
    LET filled == [hideLoading(s) EXCEPT !.net.followups = @ - 1,
                                         !.dom.queryInput = question]
        told == toast(closeModal(filled), "success", "Follow-up question generated", "")
        asked == confirm(told, "Would you like to automatically search?", confirmed)
    IN  IF confirmed THEN processQuery(asked) ELSE asked

\* generateFollowUpFromPDF whose catch block calls it again.
followUpFailedRetries(s) ==
    showAlert(hideLoading(s),
              "Failed to generate follow-up question: ", "err.message", "error")

\* The catch block of generateFollowUpFromPDF that closes the viewer as the
\* success path does.
followUpFailedClosesViewer(s) ==
    showAlert(closeModal([hideLoading(s) EXCEPT !.net.followups = @ - 1]),
              "Failed to generate follow-up question: ", "err.message", "error")

\* The catch block of generateFollowUpFromPDF.
followUpFailed(s) ==
    showAlert([hideLoading(s) EXCEPT !.net.followups = @ - 1],
              "Failed to generate follow-up question: ", "err.message", "error")

\* The cards can be clicked while the results are on display and the modal,
\* which covers the page, is hidden.
CardsClickable ==
    /\ dom.modalHidden
    /\ ~dom.resultsHidden
    /\ ~dom.docsCardHidden

\* The viewer's buttons can be clicked while the modal shows them.
ViewerVisible == ~dom.modalHidden /\ dom.viewer.present

ClickDocCard ==
    /\ CardsClickable
    /\ net.openTimers + BagCardinality(net.loads) < MaxLoads
    /\ \E i \in DOMAIN dom.docCards :
        /\ ~dom.docCards[i].web
        /\ Commit(openAccuratePDFViewer(Cur, dom.docCards[i].filename), "ClickDocCard")

ClickWebCard ==
    /\ CardsClickable
    /\ \E i \in DOMAIN dom.docCards :
        /\ dom.docCards[i].web
        /\ Commit(showWebResult(Cur), "ClickWebCard")

\* The 100 ms timer of openAccuratePDFViewer.
OpenTimerFires ==
    /\ net.openTimers > 0
    /\ Commit(initializeAccuratePDFViewer(
                setupPDFEventHandlers([Cur EXCEPT !.net.openTimers = @ - 1])),
              "OpenTimerFires")

\* getDocument('') has no document to give.
LoadSucceeds ==
    \E url \in BagToSet(net.loads) :
        /\ url # NoUrl
        /\ Commit(initializeLoaded(Cur, url), "LoadSucceeds")

LoadFails ==
    \E url \in BagToSet(net.loads) :
        Commit(initializeFailed(Cur, url), "LoadFails")

\* getPage(num) resolves for a page of the document.
RenderGetsPage ==
    \E i \in DOMAIN net.renders :
        /\ net.renders[i].pc = "getPage"
        /\ net.renders[i].num \in 1..NumPages(net.renders[i].doc)
        /\ Commit(renderGotPage(Cur, i),
                  IF dom.viewer.present THEN "RenderGetsPage" ELSE "RenderFindsNoContainer")

\* page.render and getTextContent resolve.
RenderPaints ==
    \E i \in DOMAIN net.renders :
        /\ net.renders[i].pc = "paint"
        /\ Commit(renderPainted(Cur, i), "RenderPaints")

RenderFails ==
    \E i \in DOMAIN net.renders :
        Commit(renderFailed(Cur, i), "RenderFails")

\* The close button of the modal.
ClickModalClose ==
    /\ ~dom.modalHidden
    /\ Commit(closeModal(Cur), "ClickModalClose")

\* Escape, which the window's listener acts on while the modal is not hidden.
PressEscape ==
    /\ ~dom.modalHidden
    /\ Commit(closeModal(Cur), "PressEscape")

\* A click on the modal itself, outside its content.
ClickBackdrop ==
    /\ ~dom.modalHidden
    /\ Commit(closeModal(Cur), "ClickBackdrop")

ClickPrev ==
    /\ ViewerVisible /\ dom.viewer.navBound
    /\ Commit(prevPage(Cur), "ClickPrev")

ClickNext ==
    /\ ViewerVisible /\ dom.viewer.navBound
    /\ Commit(nextPage(Cur), "ClickNext")

ClickZoomIn ==
    /\ ViewerVisible /\ dom.viewer.navBound
    /\ Commit(zoomIn(Cur), "ClickZoomIn")

ClickZoomOut ==
    /\ ViewerVisible /\ dom.viewer.navBound
    /\ Commit(zoomOut(Cur), "ClickZoomOut")

\* mouseup or touchend on the text layer; less than 250 ms after the one
\* before it on this text layer, the timer is still armed: MouseUpAgain.
MouseUp ==
    /\ ViewerVisible /\ dom.viewer.textLayer = "bound"
    /\ dom.viewer.timerArmed \/ net.selectionTimers < MaxSelectionTimers
    /\ Commit(handleSelection(Cur),
              IF dom.viewer.timerArmed THEN "MouseUpAgain" ELSE "MouseUp")

\* A selection timer fires: that of the text layer on the page, or one armed
\* on a text layer that has left the page since.
SelectionTimerFires ==
    \E text \in Selections : \E current \in BOOLEAN :
        /\ IF current THEN dom.viewer.timerArmed
           ELSE net.selectionTimers > (IF dom.viewer.timerArmed THEN 1 ELSE 0)
        /\ Commit(selectionTimeout(
                    [Cur EXCEPT !.net.selectionTimers = @ - 1,
                                !.dom.viewer.timerArmed = @ /\ ~current], text),
                  "SelectionTimerFires")

ClickClearSelection ==
    /\ ViewerVisible /\ dom.viewer.handlersBound /\ dom.viewer.selectionShown
    /\ Commit(clearPDFSelection(Cur), "ClickClearSelection")

ClickGenerate ==
    /\ ViewerVisible /\ dom.viewer.handlersBound /\ dom.viewer.selectionShown
    /\ app.selectedText = <<>> \/ net.followups < MaxFollowUps
    /\ Commit(generateFollowUpFromPDF(Cur), "ClickGenerate")

\* generateFollowUpFromPDF() called whatever the page displays: the method
\* itself looks at selectedText only.
CallGenerate ==
    /\ app.selectedText = <<>> \/ net.followups < MaxFollowUps
    /\ Commit(generateFollowUpFromPDF(Cur), "CallGenerate")

FollowUpSucceeds ==
    /\ net.followups > 0
    /\ \E question \in FollowUpQuestions : \E confirmed \in BOOLEAN :
        /\ confirmed => BagCardinality(net.queries) < MaxInFlight
        /\ Commit(followUpOk(Cur, question, confirmed), "FollowUpSucceeds")

FollowUpFails ==
    /\ net.followups > 0
    /\ Commit(followUpFailed(Cur), "FollowUpFails")

(***************************************************************************)
(* The state after new CampusQueryApp().                                   *)
(***************************************************************************)
\* The fields the constructor sets.
AppInit ==
    [currentQuery        |-> <<>>,
     currentResult       |-> NoResult,
     detailVisible       |-> FALSE,
     systemStatus        |-> [ready |-> FALSE, has_documents |-> FALSE],
     selectedText        |-> <<>>,
     currentPdfUrl       |-> <<>>,
     currentDocumentName |-> "",
     pdfDoc              |-> NoDoc,
     pageNum             |-> 1,
     scale               |-> 100,
     pageRendering       |-> FALSE,
     pageNumPending      |-> NoPage]

\* The page as served, before any handler has run.  Whether the Ask button is
\* served disabled is not decided by the script: both are initial states.
DomInit(askDisabled) ==
    [queryInput       |-> <<>>,
     askDisabled      |-> askDisabled,
     askLabel         |-> "Ask",
     loadingHidden    |-> TRUE,
     loadingText      |-> "",
     statusText       |-> "",
     statusSubtext    |-> "",
     resultsHidden    |-> TRUE,
     docsCardHidden   |-> TRUE,
     detailCardHidden |-> TRUE,
     detailLabel      |-> "Details",
     detailContent    |-> "",
     answerContent    |-> [indicator |-> "none", text |-> ""],
     docCards         |-> <<>>,
     modalHidden      |-> TRUE,
     viewer           |-> GoneViewer]

NetInit ==
    [queries        |-> EmptyBag,
     statusRequests |-> 0,
     statusTimers   |-> <<>>,
     openTimers     |-> 0,
     loads          |-> EmptyBag,
     renders        |-> <<>>,
     selectionTimers |-> 0,
     followups      |-> 0,
     exports        |-> 0,
     rebuilds       |-> 0]

\* init(): the bindings, the first checkStatus, the welcome notification.
init(s) ==
    toast(checkStatus(s), "success", "Welcome to Enhanced CampusQuery", "")

Init ==
    \E askDisabled \in BOOLEAN :
        LET s == init([app |-> AppInit, dom |-> DomInit(askDisabled),
                       net |-> NetInit, shown |-> <<>>])
        IN  /\ app = s.app
            /\ dom = s.dom
            /\ net = s.net
            /\ shown = s.shown
            /\ ev = "init"

NextQuery ==
    \/ TypeQuestion
    \/ ClickAsk
    \/ CtrlEnter
    \/ MetaEnter
    \/ QuerySucceeds
    \/ QueryFails
    \/ ClickClear
    \/ StatusSucceeds
    \/ StatusFails
    \/ StatusTimerFires

SpecQuery == Init /\ [][NextQuery]_vars

\* The question field, the Ask and Clear buttons and the Details button.
NextDetails ==
    \/ TypeQuestion
    \/ ClickAsk
    \/ QuerySucceedsDetailed
    \/ ClickClear
    \/ ClickDetails

SpecDetails == Init /\ [][NextDetails]_vars

\* Questions asked one after another or overlapping, each answered with the
\* answer to it or failing, and the export of the answer.
NextPairing ==
    \/ TypeQuestion
    \/ ClickAsk
    \/ MetaEnter
    \/ QueryAnswered
    \/ QueryFails
    \/ ClickExport
    \/ ExportSucceeds

SpecPairing == Init /\ [][NextPairing]_vars

\* The status poller and the index rebuild.
NextStatus ==
    \/ StatusSucceeds
    \/ StatusFails
    \/ StatusTimerFires
    \/ ClickRebuild
    \/ RebuildSucceeds
    \/ RebuildFails

\* Timers fire, and a request is answered or fails; whether and when the user
\* clicks is left open.
FairStatus ==
    /\ WF_vars(StatusTimerFires)
    /\ WF_vars(StatusSucceeds \/ StatusFails)
    /\ WF_vars(RebuildSucceeds \/ RebuildFails)

SpecStatus == Init /\ [][NextStatus]_vars /\ FairStatus

\* The page once the status is ready and a first question has been answered
\* with result: the state the document viewer is used from.
FirstAnswer(result) ==
    LET started == init([app |-> AppInit, dom |-> DomInit(FALSE),
                         net |-> NetInit, shown |-> <<>>])
        ready == checkStatusOk(started, [ready |-> TRUE, has_documents |-> TRUE])
        asked == processQuery([ready EXCEPT !.dom.queryInput = << "a" >>])
    IN  processQueryOk(asked, [q |-> << "a" >>, originalText |-> "Ask"], result)

AfterFirstAnswer(result) ==
    LET s == FirstAnswer(result)
    IN  /\ app = s.app
        /\ dom = s.dom
        /\ net = s.net
        /\ shown = s.shown
        /\ ev = "QuerySucceeds"

\* An answer from two documents and a web result.
ViewerResult ==
    [answer |-> "plain",
     sources |-> << [filename |-> "a.pdf", relevance |-> 5,   is_web_result |-> FALSE],
                    [filename |-> "b.pdf", relevance |-> 994, is_web_result |-> FALSE],
                    [filename |-> "site",  relevance |-> 500, is_web_result |-> TRUE] >>]

\* An answer from the one-page document and a web result.
SelectResult ==
    [answer |-> "plain",
     sources |-> << [filename |-> "a.pdf", relevance |-> 5,   is_web_result |-> FALSE],
                    [filename |-> "site",  relevance |-> 500, is_web_result |-> TRUE] >>]

InitViewer == AfterFirstAnswer(ViewerResult)

InitSelect == AfterFirstAnswer(SelectResult)

\* Opening, loading, rendering and closing: what every use of the viewer does.
ViewerBase ==
    \/ ClickDocCard
    \/ ClickWebCard
    \/ OpenTimerFires
    \/ LoadSucceeds
    \/ LoadFails
    \/ RenderGetsPage
    \/ RenderPaints
    \/ RenderFails
    \/ ClickModalClose
    \/ PressEscape
    \/ ClickBackdrop

\* The viewer with its page navigation, on documents of one and of MaxPages
\* pages.
NextViewer ==
    \/ ViewerBase
    \/ ClickPrev
    \/ ClickNext

SpecViewer == InitViewer /\ [][NextViewer]_vars

\* The viewer with its zoom controls.
NextZoom ==
    \/ ViewerBase
    \/ ClickZoomIn
    \/ ClickZoomOut

SpecZoom == InitViewer /\ [][NextZoom]_vars

\* The viewer with text selection and follow-up generation, on the one-page
\* document.
NextSelect ==
    \/ ViewerBase
    \/ MouseUp
    \/ SelectionTimerFires
    \/ ClickClearSelection
    \/ ClickGenerate
    \/ FollowUpSucceeds
    \/ FollowUpFails

SpecSelect == InitSelect /\ [][NextSelect]_vars

\* One viewer that stays open, its loads and renders all succeeding, with
\* the page navigation and the zoom controls.
NextRender ==
    \/ ClickDocCard
    \/ OpenTimerFires
    \/ LoadSucceeds
    \/ RenderGetsPage
    \/ RenderPaints
    \/ ClickPrev
    \/ ClickNext
    \/ ClickZoomIn
    \/ ClickZoomOut

SpecRender == InitViewer /\ [][NextRender]_vars

\* The page after the first answer once a.pdf has been opened and closed with
\* its load in flight, and b.pdf has been opened.
LateLoad ==
    LET answered == [FirstAnswer(ViewerResult) EXCEPT !.shown = <<>>]
        opened == openAccuratePDFViewer(answered, "a.pdf")
        loading == initializeAccuratePDFViewer(
                        setupPDFEventHandlers([opened EXCEPT !.net.openTimers = @ - 1]))
    IN  openAccuratePDFViewer(closeModal(loading), "b.pdf")

InitLate ==
    LET s == LateLoad
    IN  /\ app = s.app
        /\ dom = s.dom
        /\ net = s.net
        /\ shown = s.shown
        /\ ev = "ClickDocCard"

\* The viewer with a load of an earlier session in flight: the loads and
\* renders succeed, the user turns pages, zooms and may close the viewer.
NextLate ==
    \/ OpenTimerFires
    \/ LoadSucceeds
    \/ RenderGetsPage
    \/ RenderPaints
    \/ PressEscape
    \/ ClickPrev
    \/ ClickNext
    \/ ClickZoomIn
    \/ ClickZoomOut

SpecLate == InitLate /\ [][NextLate]_vars

\* The page after the first answer once a.pdf has been opened, loaded and
\* rendered and a selection has been made on its text layer.
FirstSelection ==
    LET answered == [FirstAnswer(SelectResult) EXCEPT !.shown = <<>>]
        opened == openAccuratePDFViewer(answered, "a.pdf")
        loading == initializeAccuratePDFViewer(
                        setupPDFEventHandlers([opened EXCEPT !.net.openTimers = @ - 1]))
        loaded == initializeLoaded(loading, DocUrl("a.pdf"))
        painted == renderPainted(renderGotPage(loaded, 1), 1)
    IN  selectionTimeout([painted EXCEPT !.shown = <<>>],
                         << " ", "a", "b", "c", "d", "e", "f", " " >>)

InitRetry ==
    LET s == FirstSelection
    IN  /\ app = s.app
        /\ dom = s.dom
        /\ net = s.net
        /\ shown = s.shown
        /\ ev = "SelectionTimerFires"

\* The requests of the page and their failures: every user action that issues
\* a request, every way the request fails, and the status poll that an index
\* rebuild starts.
NextRetry ==
    \/ ClickAsk
    \/ QueryFails
    \/ ClickGenerate
    \/ FollowUpFails
    \/ PressEscape
    \/ ClickDocCard
    \/ OpenTimerFires
    \/ LoadFails
    \/ ClickExport
    \/ ExportFails
    \/ ClickRebuild
    \/ RebuildSucceeds
    \/ RebuildFails
    \/ StatusTimerFires
    \/ StatusFails

SpecRetry == InitRetry /\ [][NextRetry]_vars

\* Follow-up generation whose requests all fail, in a viewer that can be
\* closed and opened again, the method being called with and without a
\* stored selection.
NextFollowUp ==
    \/ TypeQuestion
    \/ MouseUp
    \/ SelectionTimerFires
    \/ ClickClearSelection
    \/ ClickGenerate
    \/ CallGenerate
    \/ FollowUpFails
    \/ PressEscape
    \/ ClickDocCard
    \/ OpenTimerFires
    \/ LoadSucceeds
    \/ RenderGetsPage
    \/ RenderPaints

SpecFollowUp == InitRetry /\ [][NextFollowUp]_vars

(***************************************************************************)
(* Properties of the query submitter, checked under SpecQuery.             *)
(***************************************************************************)
SubmitEvents == { "ClickAsk", "CtrlEnter", "MetaEnter" }

InFlight == BagCardinality(net.queries)

HasToast(toasts, type) == \E i \in DOMAIN toasts : toasts[i].type = type

\* C1: a call of processQuery while the question field is empty or holds only
\* whitespace issues no /api/query request, shows a warning, and leaves
\* currentQuery, currentResult, the loading overlay and the Ask button as
\* they were.
C1_EmptyQuestionIssuesNoRequest ==
    [][ (ev' \in SubmitEvents /\ Trim(dom.queryInput) = <<>>)
        => /\ net'.queries = net.queries
           /\ HasToast(shown', "warn")
           /\ app'.currentQuery = app.currentQuery
           /\ app'.currentResult = app.currentResult
           /\ dom'.loadingHidden = dom.loadingHidden
           /\ dom'.askDisabled = dom.askDisabled
           /\ dom'.askLabel = dom.askLabel ]_vars

\* C1 happens: a whitespace-only question was submitted while a request was
\* in flight and the overlay was showing.
C1_Witness ==
    /\ ev \in SubmitEvents
    /\ dom.queryInput # <<>>
    /\ Trim(dom.queryInput) = <<>>
    /\ HasToast(shown, "warn")
    /\ InFlight > 0
    /\ ~dom.loadingHidden

\* C2: whenever at least one /api/query request is in flight, the Ask button
\* is disabled.
C2_AskDisabledWhileInFlight ==
    InFlight > 0 => dom.askDisabled

ErrorMessages == { QueryErrorMessage(f) : f \in QueryFailures }

\* C4: a failed /api/query request shows an error notification with the error
\* message, hides the overlay and enables the Ask button again; neither its
\* submission nor its failure changes currentResult, the answer on display or
\* the source cards.
C4_FailedQueryKeepsResult ==
    [][ /\ ev' = "QueryFails"
           => /\ \E m \in ErrorMessages : shown' = << Toast("error", "Error: ", m) >>
              /\ dom'.loadingHidden
              /\ ~dom'.askDisabled
        /\ ev' \in SubmitEvents \cup { "QueryFails" }
           => /\ app'.currentResult = app.currentResult
              /\ dom'.answerContent = dom.answerContent
              /\ dom'.docCards = dom.docCards ]_vars

\* C4 happens: a request has failed while an earlier result was on display.
C4_Witness ==
    /\ ev = "QueryFails"
    /\ HasToast(shown, "error")
    /\ app.currentResult # NoResult
    /\ Len(dom.docCards) > 0

(***************************************************************************)
(* Properties of the document viewer, checked under SpecViewer, SpecZoom   *)
(* and SpecSelect.                                                         *)
(***************************************************************************)
Loads == BagCardinality(net.loads)

CloseEvents == { "ClickModalClose", "PressEscape", "ClickBackdrop" }

\* The handler runs that close the modal: the three listeners and a generated
\* follow-up question.
ModalCloses == CloseEvents \cup { "FollowUpSucceeds" }

RenderEndEvents == { "RenderPaints", "RenderFails", "RenderFindsNoContainer" }

\* C5: at most one execution of renderPageAccurately is between setting
\* pageRendering to true and setting it back to false.
C5_OneRenderInFlight ==
    Len(net.renders) <= 1

\* C5 happens: Next was clicked while a render was in flight, and the request
\* was put aside in pageNumPending.
C5_Witness ==
    /\ ev = "ClickNext"
    /\ Len(net.renders) = 1
    /\ app.pageRendering
    /\ app.pageNumPending # NoPage

\* C6: when a render of an open document ends with a page number put aside
\* in pageNumPending, a render of that page is in flight after it.
C6_PendingPageRenderedNext ==
    [][ (/\ ev' \in RenderEndEvents
         /\ app.pdfDoc # NoDoc
         /\ app.pageNumPending # NoPage)
        => \E i \in DOMAIN net'.renders :
                net'.renders[i].num = app.pageNumPending ]_vars

\* C7: the zoom scale is within [0.5, 3.0] in every state; zoom-in at 3.0 and
\* zoom-out at 0.5 leave it as it is.
C7_ScaleClamped ==
    /\ [](app.scale >= 50 /\ app.scale <= 300)
    /\ [][ /\ (ev' = "ClickZoomIn" /\ app.scale = 300) => app'.scale = 300
           /\ (ev' = "ClickZoomOut" /\ app.scale = 50) => app'.scale = 50 ]_vars

\* C7 happens: zoom-in was clicked with the page on display rendered at 3.0.
C7_Witness ==
    /\ ev = "ClickZoomIn"
    /\ app.scale = 300
    /\ dom.viewer.pageShown.scale = 300

\* C8: Next with the current page equal to the page count of the document
\* changes nothing but the notifications: pageNum, the renders in flight,
\* pageRendering, pageNumPending and the selection stay, and the one
\* notification shown is the info notice.
C8_NextOnLastPage ==
    [][ (/\ ev' = "ClickNext"
         /\ app.pdfDoc # NoDoc
         /\ app.pageNum = NumPages(app.pdfDoc))
        => /\ app' = app
           /\ net' = net
           /\ dom' = dom
           /\ shown' = << Toast("info", "Already on last page", "") >> ]_vars

\* C8 happens: Next was clicked on the last page of the document of MaxPages
\* pages.
C8_Witness ==
    /\ ev = "ClickNext"
    /\ app.pdfDoc # NoDoc
    /\ app.pageNum = NumPages(app.pdfDoc)
    /\ app.pageNum > 1
    /\ shown = << Toast("info", "Already on last page", "") >>

\* C9: after the modal was closed by its close button, by Escape, by a click
\* on its backdrop or by a generated follow-up question, selectedText is
\* empty, pdfDoc is null, and currentPdfUrl and currentDocumentName are
\* empty.
C9_CloseClearsDocument ==
    ev \in ModalCloses
    => /\ dom.modalHidden
       /\ app.selectedText = <<>>
       /\ app.pdfDoc = NoDoc
       /\ app.currentPdfUrl = NoUrl
       /\ app.currentDocumentName = ""

\* C9 happens: the modal was closed with a page rendered and a selection on
\* display.
C9_Witness ==
    /\ ev \in ModalCloses
    /\ dom.viewer.selectionShown
    /\ dom.viewer.pageShown.num # NoPage

\* C10 as written: after the modal was closed the whole PDF session state is
\* back at its initial values.
C10_CloseResetsSession ==
    ev \in ModalCloses
    => /\ app.pdfDoc = NoDoc
       /\ app.selectedText = <<>>
       /\ app.currentPdfUrl = NoUrl
       /\ app.currentDocumentName = ""
       /\ app.pageNum = AppInit.pageNum
       /\ app.scale = AppInit.scale
       /\ app.pageRendering = AppInit.pageRendering
       /\ app.pageNumPending = AppInit.pageNumPending

\* C10: closing the modal clears pdfDoc, selectedText, currentPdfUrl and
\* currentDocumentName and leaves pageNum, scale, pageRendering and
\* pageNumPending as they were.
C10_CloseResetsDocumentOnly ==
    [][ ev' \in ModalCloses
        => /\ app'.pdfDoc = NoDoc
           /\ app'.selectedText = <<>>
           /\ app'.currentPdfUrl = NoUrl
           /\ app'.currentDocumentName = ""
           /\ app'.pageNum = app.pageNum
           /\ app'.scale = app.scale
           /\ app'.pageRendering = app.pageRendering
           /\ app'.pageNumPending = app.pageNumPending ]_vars

\* C10 happens: the modal was closed on the second page, a render in flight
\* and a page number put aside.
C10_Witness ==
    /\ ev \in CloseEvents
    /\ app.pdfDoc = NoDoc
    /\ app.pageNum = 2
    /\ app.pageRendering
    /\ app.pageNumPending # NoPage

\* C16: a failed document load puts the inline error, with its 'open in new
\* tab' button, in the place of the loading placeholder that is on display,
\* and puts none on display where the placeholder is hidden or gone; it shows
\* an error notification and leaves pdfDoc, the renders in flight and the
\* binding of the prev/next/zoom controls as they were.
C16_LoadFailureShowsInlineError ==
    [][ ev' = "LoadFails"
        => /\ (dom'.viewer.loadingMessage = "error")
                = (dom.viewer.loadingMessage \in { "loading", "error" })
           /\ Loads' = Loads - 1
           /\ shown' = << Toast("error", "Failed to load PDF: ", "error.message") >>
           /\ app'.pdfDoc = app.pdfDoc
           /\ net'.renders = net.renders
           /\ app'.pageRendering = app.pageRendering
           /\ dom'.viewer.navBound = dom.viewer.navBound ]_vars

\* C16 happens: the load of the document on display has failed; the inline
\* error is in the viewer, no document is set, nothing renders and the
\* controls are not bound.
C16_Witness ==
    /\ ev = "LoadFails"
    /\ ~dom.modalHidden
    /\ dom.viewer.present
    /\ dom.viewer.loadingMessage = "error"
    /\ app.pdfDoc = NoDoc
    /\ app.currentDocumentName = "b.pdf"
    /\ net.renders = <<>>
    /\ ~dom.viewer.navBound

\* A document is open with its controls bound and no render in flight.
Quiescent ==
    /\ app.pdfDoc # NoDoc
    /\ dom.viewer.navBound
    /\ net.renders = <<>>

\* The clicks that the listeners of the controls act on.
Accepted(e) ==
    \/ e = "ClickPrev" /\ app.pageNum > 1
    \/ e = "ClickNext" /\ app.pageNum < NumPages(app.pdfDoc)
    \/ e \in { "ClickZoomIn", "ClickZoomOut" }

\* C18: an accepted prev, next or zoom click requests a render of the page
\* that is current after it: it starts one, or puts the page aside while one
\* is in flight.  In a viewer that stays open and whose renders succeed,
\* whenever no render is in flight the page in the container is pageNum,
\* rendered at the current scale, and the indicator shows pageNum of
\* numPages.
C18_RenderFollowsControls ==
    /\ [](Quiescent
          => /\ dom.viewer.pageShown = [num |-> app.pageNum, scale |-> app.scale]
             /\ dom.viewer.pageInfo = << app.pageNum, NumPages(app.pdfDoc) >>
             /\ ~app.pageRendering
             /\ app.pageNumPending = NoPage)
    /\ [][ Accepted(ev')
           => /\ app'.pageRendering
              /\ Len(net'.renders) = 1
              /\ IF app.pageRendering
                 THEN app'.pageNumPending = app'.pageNum /\ net'.renders = net.renders
                 ELSE net'.renders[1].num = app'.pageNum
                      /\ net'.renders[1].pc = "getPage" ]_vars

\* C18 happens: the last render has ended on the last page of the document
\* at a scale that is not the initial one.
C18_Witness ==
    /\ ev = "RenderPaints"
    /\ Quiescent
    /\ app.pageNum = NumPages(app.pdfDoc)
    /\ app.pageNum > 1
    /\ app.scale = 150
    /\ dom.viewer.pageShown = [num |-> app.pageNum, scale |-> 150]

\* C19: a document load that succeeds installs its document as pdfDoc and
\* sets pageNum to 1 and scale to 1.0 whatever has happened to the viewer
\* since the load started: closed, or showing another document.
C19_LateLoadInstalled ==
    [][ ev' = "LoadSucceeds"
        => \E url \in BagToSet(net.loads) :
            /\ net'.loads = net.loads (-) SetToBag({url})
            /\ app'.pdfDoc = url[2]
            /\ app'.pageNum = 1
            /\ app'.scale = 100
            /\ app'.currentPdfUrl = app.currentPdfUrl
            /\ app'.currentDocumentName = app.currentDocumentName ]_vars

\* C19 happens: the load of a.pdf has completed while the viewer shows b.pdf
\* on its second page at 125%: pdfDoc is a.pdf, currentDocumentName is b.pdf,
\* and pageNum and scale are back at 1 and 1.0.
C19_Witness ==
    /\ ev = "LoadSucceeds"
    /\ app.pdfDoc = "a.pdf"
    /\ app.currentDocumentName = "b.pdf"
    /\ app.pageNum = 1
    /\ app.scale = 100
    /\ dom.viewer.pageShown = [num |-> 2, scale |-> 125]
    /\ ~dom.modalHidden

(***************************************************************************)
(* Properties of the Details button, checked under SpecDetails.            *)
(***************************************************************************)
\* C11: with a current result a Details toggle inverts the panel: a hidden
\* panel is shown with the label 'Hide Details', a shown panel is hidden with
\* the label 'Details'; so two toggles that follow each other, the first on a
\* hidden panel, leave the panel hidden, detailVisible false and the label
\* 'Details'.  With no current result a toggle changes nothing.
C11_TwoTogglesRestore ==
    [][ /\ (ev' = "ClickDetails" /\ app.currentResult # NoResult)
           => /\ app'.detailVisible = ~app.detailVisible
              /\ dom'.detailCardHidden = ~dom.detailCardHidden
              /\ dom'.detailCardHidden = ~app'.detailVisible
              /\ dom'.detailLabel = IF app'.detailVisible THEN "Hide Details"
                                                          ELSE "Details"
        /\ (/\ ev = "ClickDetails" /\ ev' = "ClickDetails"
            /\ app.currentResult # NoResult /\ app.detailVisible)
           => /\ dom'.detailCardHidden
              /\ ~app'.detailVisible
              /\ dom'.detailLabel = "Details"
        /\ (ev' = "ClickDetails" /\ app.currentResult = NoResult)
           => /\ app' = app
              /\ dom' = dom
              /\ net' = net ]_vars

\* C11 happens: a toggle has hidden the panel that an earlier toggle had
\* filled with the detailed answer of the current result.
C11_Witness ==
    /\ ev = "ClickDetails"
    /\ app.currentResult # NoResult
    /\ dom.detailCardHidden
    /\ dom.detailLabel = "Details"
    /\ dom.detailContent = "longer"

(***************************************************************************)
(* Properties of the status poller, checked under SpecQuery.               *)
(***************************************************************************)
\* C12: a completed /api/status request leaves one request less in flight;
\* a ready response arms no timer, a not-ready response arms one timer of
\* 1500 ms, a failure shows the error state and arms one timer of 2500 ms;
\* a timer that fires issues one request.  No count of earlier responses
\* enters the rule.
C12_StatusRepoll ==
    [][ /\ ev' \in { "StatusSucceeds", "StatusFails" }
           => net'.statusRequests = net.statusRequests - 1
        /\ (ev' = "StatusSucceeds" /\ app'.systemStatus.ready)
           => /\ net'.statusTimers = net.statusTimers
              /\ dom'.statusText = "Ready"
        /\ (ev' = "StatusSucceeds" /\ ~app'.systemStatus.ready)
           => net'.statusTimers = Append(net.statusTimers, 1500)
        /\ ev' = "StatusFails"
           => /\ net'.statusTimers = Append(net.statusTimers, 2500)
              /\ dom'.statusText = "Error"
        /\ ev' = "StatusTimerFires"
           => /\ net'.statusRequests = net.statusRequests + 1
              /\ Len(net'.statusTimers) = Len(net.statusTimers) - 1 ]_vars

\* C12 happens: a status request has failed while a query was in flight; the
\* error state is shown and the timer of 2500 ms is the one armed.
C12_Witness ==
    /\ ev = "StatusFails"
    /\ dom.statusText = "Error"
    /\ dom.statusSubtext = "Connection failed - retrying..."
    /\ net.statusTimers = << 2500 >>
    /\ net.statusRequests = 0
    /\ InFlight > 0

\* The last handler run was a /api/status request that failed or was
\* answered not ready.
StatusNotReady ==
    \/ ev = "StatusFails"
    \/ ev = "StatusSucceeds" /\ ~app.systemStatus.ready

\* The indicator shows Ready and no status poll is in flight or scheduled.
Settled == dom.statusText = "Ready" /\ Polls = 0

\* C17: if from some point on no /api/status request fails or is answered
\* not ready, and no rebuild is in flight, then from some point on the
\* indicator shows Ready and no status poll is in flight or scheduled; and a
\* state in which it does so with no rebuild in flight is followed only by
\* such a state or by the start of a rebuild.
C17_PollingSettles ==
    /\ (<>[](~StatusNotReady) /\ <>[](net.rebuilds = 0)) => <>[]Settled
    /\ [][ (Settled /\ net.rebuilds = 0) => (Settled' \/ net'.rebuilds > 0) ]_vars

\* C17 happens: a rebuild was started on the page, and a ready response has
\* ended the polling.
C17_Witness ==
    /\ ev = "StatusSucceeds"
    /\ dom.loadingText = "Rebuilding document index"
    /\ Settled
    /\ net.rebuilds = 0
    /\ app.systemStatus.ready
    /\ ~dom.askDisabled

(***************************************************************************)
(* Properties of failed requests, checked under SpecRetry.                 *)
(***************************************************************************)
FailEvents == { "QueryFails", "FollowUpFails", "ExportFails", "RebuildFails", "LoadFails" }

\* C13: the handler of a failed /api/query, /api/followup, /api/export,
\* /api/rebuild or document load takes its request away and issues no
\* request and arms no timer; a request of these kinds is issued by a user
\* action only (a document load by the 100 ms timer of a click on a card).
\* A /api/status request is issued by a timer.
C13_NoAutomaticRetry ==
    [][ /\ ev' \in FailEvents
           => /\ InFlight' + net'.followups + net'.exports + net'.rebuilds + Loads'
                 = InFlight + net.followups + net.exports + net.rebuilds + Loads - 1
              /\ InFlight' <= InFlight
              /\ net'.followups <= net.followups
              /\ net'.exports <= net.exports
              /\ net'.rebuilds <= net.rebuilds
              /\ Loads' <= Loads
              /\ net'.openTimers = net.openTimers
              /\ net'.statusTimers = net.statusTimers
              /\ net'.statusRequests = net.statusRequests
        /\ InFlight' > InFlight
           => ev' \in { "ClickAsk", "CtrlEnter", "MetaEnter", "FollowUpSucceeds" }
        /\ net'.followups > net.followups => ev' = "ClickGenerate"
        /\ net'.exports > net.exports => ev' = "ClickExport"
        /\ net'.rebuilds > net.rebuilds => ev' = "ClickRebuild"
        /\ net'.openTimers > net.openTimers => ev' = "ClickDocCard"
        /\ Loads' > Loads => (ev' = "OpenTimerFires" /\ net'.openTimers = net.openTimers - 1)
        /\ net'.statusRequests > net.statusRequests => ev' = "StatusTimerFires" ]_vars

\* C13 happens: a /api/followup request has failed and none is in flight,
\* while the timer of a failed /api/status request is armed.
C13_Witness ==
    /\ ev = "FollowUpFails"
    /\ net.followups = 0
    /\ app.selectedText # <<>>
    /\ dom.statusText = "Error"
    /\ net.statusTimers = << 2500 >>

(***************************************************************************)
(* Properties of selection and follow-up generation, checked under         *)
(* SpecSelect.                                                             *)
(***************************************************************************)
\* What confirm() returned in the handler run that showed these.
Confirmed(toasts) ==
    \E i \in DOMAIN toasts : toasts[i].type = "confirm" /\ toasts[i].arg = "ok"

\* C14: a successful /api/followup response writes its question into the
\* query field, hides the modal and clears selectedText, pdfDoc,
\* currentPdfUrl and currentDocumentName.  It hides the loading overlay; when
\* the user confirms the prompt, one query for the question is submitted and
\* shows the overlay again; when the user does not, no query is submitted
\* and the overlay stays hidden.
C14_FollowUpFillsQuestion ==
    [][ ev' = "FollowUpSucceeds"
        => /\ dom'.queryInput \in FollowUpQuestions
           /\ dom'.modalHidden
           /\ app'.selectedText = <<>>
           /\ app'.pdfDoc = NoDoc
           /\ app'.currentPdfUrl = NoUrl
           /\ app'.currentDocumentName = ""
           /\ net'.followups = net.followups - 1
           /\ IF Confirmed(shown')
              THEN /\ net'.queries = net.queries (+)
                        SetToBag({ [q |-> Trim(dom'.queryInput),
                                    originalText |-> dom.askLabel] })
                   /\ app'.currentQuery = Trim(dom'.queryInput)
                   /\ ~dom'.loadingHidden
              ELSE /\ net'.queries = net.queries
                   /\ app'.currentQuery = app.currentQuery
                   /\ dom'.loadingHidden ]_vars

\* C14 happens: the question of the response is in the query field, the
\* user did not confirm, and no query is in flight.
C14_Witness ==
    /\ ev = "FollowUpSucceeds"
    /\ dom.queryInput \in FollowUpQuestions
    /\ ~Confirmed(shown)
    /\ InFlight = 0
    /\ dom.loadingHidden
    /\ dom.modalHidden

\* C15: selectedText is empty or longer than 5 characters in every state.  A
\* selection timer that fires either stores a trimmed selection of more than
\* 5 characters, and displays it where the selection display exists, or
\* empties selectedText and hides the selection display.
C15_SelectionLongerThanFive ==
    /\ [](app.selectedText = <<>> \/ Len(app.selectedText) > 5)
    /\ [][ ev' = "SelectionTimerFires"
           => \/ /\ Len(app'.selectedText) > 5
                 /\ Trim(app'.selectedText) = app'.selectedText
                 /\ dom'.viewer.selectionShown = dom.viewer.present
                 /\ shown' = << Toast("success", "Selected characters",
                                      Len(app'.selectedText)) >>
              \/ /\ app'.selectedText = <<>>
                 /\ ~dom'.viewer.selectionShown
                 /\ shown' = << Toast("info", "Selection cleared", "") >> ]_vars

\* C15 happens: a selection timer has emptied a stored selection that is
\* still in the /api/followup request in flight.
C15_Witness ==
    /\ ev = "SelectionTimerFires"
    /\ app.selectedText = <<>>
    /\ ~dom.viewer.selectionShown
    /\ net.followups > 0
    /\ ~dom.modalHidden

(***************************************************************************)
(* Properties of follow-up generation that fails, checked under            *)
(* SpecFollowUp.                                                           *)
(***************************************************************************)
GenerateEvents == { "ClickGenerate", "CallGenerate" }

\* C20: follow-up generation invoked while selectedText is empty issues no
\* /api/followup request and shows a warning, changing nothing else; invoked
\* with a stored selection it issues one request and shows the overlay.  A
\* /api/followup request that fails shows an error notification and hides
\* the loading overlay; the modal stays as it is, and selectedText, the
\* viewer's fields and content and the query field are unchanged.
C20_FollowUpFailureKeepsViewer ==
    [][ /\ (ev' \in GenerateEvents /\ app.selectedText = <<>>)
           => /\ net' = net
              /\ shown' = << Toast("warn", "Please select some text first", "") >>
              /\ app' = app
              /\ dom' = dom
        /\ (ev' \in GenerateEvents /\ app.selectedText # <<>>)
           => /\ net'.followups = net.followups + 1
              /\ ~dom'.loadingHidden
              /\ shown' = <<>>
        /\ ev' = "FollowUpFails"
           => /\ net'.followups = net.followups - 1
              /\ shown' = << Toast("error", "Failed to generate follow-up question: ",
                                   "err.message") >>
              /\ dom'.loadingHidden
              /\ dom'.modalHidden = dom.modalHidden
              /\ app' = app
              /\ dom'.viewer = dom.viewer
              /\ dom'.queryInput = dom.queryInput
              /\ InFlight' = InFlight ]_vars

\* C20 happens: generation was invoked with no selection stored, in an open
\* viewer whose one /api/followup request has failed, the question typed
\* before it still in the query field.
C20_Witness ==
    /\ ev = "CallGenerate"
    /\ app.selectedText = <<>>
    /\ shown = << Toast("warn", "Please select some text first", "") >>
    /\ net.followups = 0
    /\ dom.loadingText = "Generating follow-up question"
    /\ dom.loadingHidden
    /\ ~dom.modalHidden
    /\ app.pdfDoc # NoDoc
    /\ dom.queryInput # <<>>

(***************************************************************************)
(* Properties of the selection timer, checked under SpecSelect.            *)
(***************************************************************************)
MouseUpEvents == { "MouseUp", "MouseUpAgain" }

\* C21: a mouseup or touchend on a text layer whose timer is armed replaces
\* that timer, so that however many follow each other within 250 ms one
\* timer is armed for the text layer and one evaluation follows; the events
\* themselves leave selectedText and the selection display as they were, and
\* the evaluation disarms the timer.
C21_SelectionDebounced ==
    /\ [](dom.viewer.timerArmed => net.selectionTimers >= 1)
    /\ [][ /\ ev' \in MouseUpEvents
              => /\ app' = app
                 /\ dom'.viewer = [dom.viewer EXCEPT !.timerArmed = TRUE]
                 /\ shown' = <<>>
           /\ ev' = "MouseUp"
              => /\ ~dom.viewer.timerArmed
                 /\ net'.selectionTimers = net.selectionTimers + 1
           /\ ev' = "MouseUpAgain"
              => /\ dom.viewer.timerArmed
                 /\ net'.selectionTimers = net.selectionTimers
           /\ ev' = "SelectionTimerFires"
              => /\ net'.selectionTimers = net.selectionTimers - 1
                 /\ net'.selectionTimers = 0 => ~dom'.viewer.timerArmed ]_vars

\* C21 happens: a further mouseup came while the timer of the text layer was
\* armed and a selection was stored; one timer is armed.
C21_Witness ==
    /\ ev = "MouseUpAgain"
    /\ dom.viewer.timerArmed
    /\ net.selectionTimers = 1
    /\ app.selectedText # <<>>
    /\ dom.viewer.selectionShown

C23_CtrlEnterSubmitsOnce ==
    [][ (ev' = "CtrlEnter" /\ Trim(dom.queryInput) # <<>>)
        => InFlight' = InFlight + 1 ]_vars

\* C24: whenever no /api/query request is in flight, the Ask button has the
\* label it was served with, not the 'Processing' label.
C24_LabelRestored ==
    InFlight = 0 => dom.askLabel = DomInit(FALSE).askLabel

(***************************************************************************)
(* Properties of the question and its answer, checked under SpecPairing.   *)
(***************************************************************************)
\* C25: whenever a result is stored and no /api/query request is in flight,
\* the result is the answer to the question in currentQuery; and a file
\* exported then holds a question and the answer to it.
C25_ResultAnswersCurrentQuery ==
    /\ (app.currentResult # NoResult /\ InFlight = 0)
       => app.currentResult = AnswerTo(app.currentQuery)
    /\ (ev = "ExportSucceeds" /\ InFlight = 0)
       => shown[1].arg.result = AnswerTo(shown[1].arg.question)

(***************************************************************************)
(* Properties of the page put aside, checked under SpecViewer.             *)
(***************************************************************************)
\* C26: whenever pageRendering is false, pageNumPending is null.
C26_PendingOnlyWhileRendering ==
    ~app.pageRendering => app.pageNumPending = NoPage

(***************************************************************************)
(* Properties of the polls outstanding, checked under SpecStatus.          *)
(***************************************************************************)
\* C27: at most one status poll is outstanding: one /api/status request in
\* flight or one timer of checkStatus armed.
C27_OnePollOutstanding ==
    Polls <= 1

(***************************************************************************)
(* Properties of the page number, checked under SpecLate.                  *)
(***************************************************************************)
ZoomEvents == { "ClickZoomIn", "ClickZoomOut" }

\* C28: whenever a document is set, pageNum is a page of it.  Prev on page 1
\* and Next on the last page change nothing and show their notice; any other
\* Prev or Next with a document set changes pageNum by one; zoom leaves
\* pageNum; a load that completes, late or not, sets a document and page 1.
C28_PageNumInRange ==
    /\ [](app.pdfDoc # NoDoc => app.pageNum \in 1..NumPages(app.pdfDoc))
    /\ [][ /\ (ev' = "ClickPrev" /\ app.pageNum = 1)
              => /\ app' = app /\ dom' = dom /\ net' = net
                 /\ shown' = << Toast("info", "Already on first page", "") >>
           /\ (ev' = "ClickNext" /\ app.pdfDoc # NoDoc
                                 /\ app.pageNum = NumPages(app.pdfDoc))
              => /\ app' = app /\ dom' = dom /\ net' = net
                 /\ shown' = << Toast("info", "Already on last page", "") >>
           /\ (ev' = "ClickPrev" /\ app.pageNum > 1)
              => app'.pageNum = app.pageNum - 1
           /\ (ev' = "ClickNext" /\ app.pdfDoc # NoDoc
                                 /\ app.pageNum < NumPages(app.pdfDoc))
              => app'.pageNum = app.pageNum + 1
           /\ ev' \in ZoomEvents => app'.pageNum = app.pageNum
           /\ ev' = "LoadSucceeds"
              => app'.pdfDoc # NoDoc /\ app'.pageNum = 1 ]_vars

\* C28 happens: with b.pdf on its second page in the viewer, the late load
\* of the one-page a.pdf has set pageNum to 1, and Next finds page 1 the last
\* page.
C28_Witness ==
    /\ ev = "ClickNext"
    /\ app.pdfDoc = "a.pdf"
    /\ app.currentDocumentName = "b.pdf"
    /\ app.pageNum = 1
    /\ dom.viewer.pageShown.num = 2
    /\ shown = << Toast("info", "Already on last page", "") >>

(***************************************************************************)
(* Properties of the detail panel, checked under SpecDetails.              *)
(***************************************************************************)
\* C29: whenever the detail panel is shown, its content is the detailed
\* answer of the current result.
C29_DetailOfCurrentResult ==
    ~dom.detailCardHidden
    => dom.detailContent = DetailedAnswer(app.currentResult)

\* C30: the detail panel is shown only while the results section is shown.
C30_DetailOnlyWithResults ==
    ~dom.detailCardHidden => ~dom.resultsHidden

(***************************************************************************)
(* Properties of the loading overlay, checked under SpecQuery.             *)
(***************************************************************************)
\* The requests in flight that showed the overlay when they were issued.
OverlayRequests == InFlight + net.followups + net.rebuilds

\* C31: the loading overlay is shown whenever a /api/query, /api/followup or
\* /api/rebuild request is in flight, and hidden whenever none is.
C31_OverlayWhileInFlight ==
    dom.loadingHidden = (OverlayRequests = 0)

(***************************************************************************)
(* Properties of the selection of a closed viewer, checked under           *)
(* SpecSelect.                                                             *)
(***************************************************************************)
\* C32: while the modal is hidden, selectedText is empty.
C32_NoSelectionWhileHidden ==
    dom.modalHidden => app.selectedText = <<>>

====
